---------------------------- MODULE Spec2Model ----------------------------
(***************************************************************************)
(* The primary server (O2PrimaryServerDevice) and the simulation worker    *)
(* (O2SimDevice::Kernel) of the o2sim producer/worker protocol.            *)
(*                                                                         *)
(* Spec        the producer: its serving loop (ConditionalRun), the        *)
(*             generator thread (initGenerator / generateEvent) and the    *)
(*             control input (waitForControlInput / ReInit), against       *)
(*             clients that may send any request.                          *)
(* SpecWorker  the worker: Kernel and isWorkAvailable against a peer that  *)
(*             may answer anything the transport can deliver.              *)
(*                                                                         *)
(* A primary is identified by its position in the event. Seeds, event      *)
(* headers, the pipe to the driver, the notification channel and the       *)
(* status responder thread change none of the modelled fields and are      *)
(* left out; a failed Receive in ConditionalRun returns at once and        *)
(* changes nothing, so it is a stuttering step.                            *)
(***************************************************************************)
EXTENDS Integers, Sequences, FiniteSets, TLC

(* ------------------------------ bounds -------------------------------- *)
\* largest chunk granularity (chunkSize) tried
MaxG == 2
\* largest number of primaries a generated event may have
MaxPrims == 3
\* largest number of events per batch (nEvents)
MaxEv == 2
\* largest number of successful reconfigurations (ReInit with stop = false)
MaxBatches == 2
\* number of workers
NWorkers == 1
\* requests the producer's end of "primary-get" holds unread
MaxQueue == 2

(* --------------------------- program constants ------------------------ *)
\* member initialisers of O2PrimaryServerDevice
DefaultChunkGranularity == 500
DefaultMaxEvents == 2
\* the worker's bound on receive attempts: while (code == -1 && trial <= 2)
MaxTrial == 2

\* O2PrimaryServerState, declared in PrimaryServerState.h: five distinct values,
\* sent on the status channel as (int)mState
ServerStates == {"Initializing", "ReadyToServe", "WaitingEvent", "Idle", "Stopped"}

StateCode(s) ==
  CASE s = "Initializing" -> 0
    [] s = "ReadyToServe" -> 1
    [] s = "WaitingEvent" -> 2
    [] s = "Idle"         -> 3
    [] s = "Stopped"      -> 4

\* generator identities (SimConfig::getGenerator)
Generators == {"pythia8", "extkin", "extkinO2"}
ExtKin == {"extkin", "extkinO2"}

\* request payloads a client may put on the primary-get channel
Payloads == {"configrequest", "primrequest", "bogus"}

Workers == 1..NWorkers

VARIABLES
  \* ---- O2PrimaryServerDevice members
  mState, mEventCounter, mPartCounter, mNeedNewEvent, mMaxEvents,
  mChunkGranularity, mAsService, mGenerator, mPrimGen, mPrimGeneratorCache,
  mStack,
  \* ---- execution units of the producer
  spc,        \* position of the main thread (InitTask, ConditionalRun)
  gpc,        \* mGeneratorThread: "none" when not joinable, else its position
  cur,        \* payload of the request being handled
  more,       \* the value HandleRequest / waitForControlInput returned
  nInst,      \* number of PrimaryGenerator instances constructed so far
  nBatches,   \* number of ReInit calls that restarted generation
  \* ---- observations of the producer's behaviour
  reply,      \* what the HandleRequest call being completed did
  served,     \* the work chunks built for the current event, in order
  evPrims,    \* the primaries of the current event when its serving began
  nFull,      \* events of this batch whose parts were all sent
  ctl,        \* the control input being processed
  genLog,     \* what the last initGenerator run did
  initNames,  \* identities initGenerator has run for
  sentinel,   \* an end-of-work reply was built in the current batch
  \* ---- O2SimDevice (worker) and its channels
  wpc, trial, wRet, wChunk, wProcessed, wProbe, wAvail, useStatus,
  statusRep, workRep, nSent,
  wCodes,     \* what the Receive calls of the current Kernel call returned
  \* ---- the "primary-get" channel, producer side
  reqQ        \* the workers whose "primrequest" waits to be received

prodVars == <<mState, mEventCounter, mPartCounter, mNeedNewEvent, mMaxEvents,
              mChunkGranularity, mAsService, mGenerator, mPrimGen,
              mPrimGeneratorCache, mStack, spc, gpc, cur, more, nInst, nBatches>>
obsVars == <<reply, served, evPrims, nFull, ctl, genLog, initNames, sentinel>>
workerVars == <<wpc, trial, wRet, wChunk, wProcessed, wProbe, wAvail, useStatus,
                statusRep, workRep, nSent, wCodes>>
chanVars == <<reqQ>>
vars == <<prodVars, obsVars, workerVars, chanVars>>

(* ------------------------------ helpers ------------------------------- *)
Max(a, b) == IF a >= b THEN a ELSE b

\* an event of n primaries; a primary is identified by its position
Prims(n) == [i \in 1..n |-> i]

\* std::ceil(n / (1. * g)) for n >= 0, g >= 1
Ceil(n, g) == (n + g - 1) \div g

NoChunk == [eventID |-> 0, maxEvents |-> 0, part |-> 0, nparts |-> 0,
            index |-> 0, prims |-> <<>>]

NoReply == [req |-> "none", replied |-> FALSE, sent |-> FALSE, wa |-> FALSE,
            preEC |-> 0, preME |-> 0, preNNE |-> FALSE, preFull |-> 0,
            chunk |-> NoChunk]

NoCtl == [called |-> FALSE, received |-> FALSE, stop |-> FALSE]

NoGenLog == [n |-> 0, name |-> "none", inst |-> 0, constructed |-> FALSE,
             prevName |-> "none", prevInst |-> 0, known |-> FALSE]

(* ====================== O2PrimaryServerDevice ========================= *)

\* variants of WorkAvailable: one forgets mNeedNewEvent, one compares with >
WorkAvailableIgnoringNeed(ec, me, nne) == ~(ec >= me)

WorkAvailableOffByOne(ec, me, nne) == ~(ec > me /\ nne)

\* HandleRequest: bool workavailable = !(mEventCounter >= mMaxEvents && mNeedNewEvent)
WorkAvailable(ec, me, nne) == ~(ec >= me /\ nne)

\* variant of NumberOfParts: integer division in place of std::ceil
NumberOfPartsFloor(n, g) == Max(1, n \div g)

\* HandleRequest: numberofparts = std::max(1, (int)std::ceil(size / (1. * granularity)))
NumberOfParts(n, g) == Max(1, Ceil(n, g))

\* variant of Slice: walks the primaries from the head
SliceHeadFirst(prims, pc, g) ==
  LET n == Len(prims)
  IN  SubSeq(prims, pc * g + 1, IF (pc + 1) * g <= n THEN (pc + 1) * g ELSE n)

\* HandleRequest: the primaries copied into the chunk for part counter pc:
\* for (index = startindex; index < endindex; ++index) emplace_back(prims[index])
\* with both indices clamped to 0 from below (C++ index i is position i + 1)
Slice(prims, pc, g) ==
  LET n          == Len(prims)
      endindex   == Max(0, n - pc * g)
      startindex == Max(0, n - (pc + 1) * g)
  IN  SubSeq(prims, startindex + 1, endindex)

\* variant of UseCache: the test inverted
UseCacheInverted(name) == name = "extkin" \/ name = "extkinO2"

\* initGenerator: the condition under which the generator cache is looked up
UseCache(name) == name # "extkin" \/ name # "extkinO2"

\* the process is alive: std::terminate has not been called
Alive == spc # "terminated"

\* mGeneratorThread.joinable()
Joinable == gpc # "none"

\* variant of ThreadFinished: a poll that does not wait for the thread
ThreadFinishedPoll == TRUE

\* the generator thread has run to completion (join() returns at once)
ThreadFinished == gpc \in {"none", "done"}

\* a background initGenerator / generateEvent call has started and not completed
InFlight == gpc \in {"init", "genstart", "generate"}

\* variant of InitTask: initGenerator is called on the main thread instead of
\* being handed to mGeneratorThread
InitTaskSync(g, nev, gen, service) ==
  /\ spc = "constructed"
  /\ mChunkGranularity' = g
  /\ mMaxEvents' = nev
  /\ mGenerator' = gen
  /\ mAsService' = service
  /\ mPrimGen' = nInst + 1
  /\ mPrimGeneratorCache' = [mPrimGeneratorCache EXCEPT ![gen] = nInst + 1]
  /\ nInst' = nInst + 1
  /\ mStack' = Prims(1)
  /\ mState' = "ReadyToServe"
  /\ gpc' = "none"
  /\ spc' = "run"
  /\ UNCHANGED <<mEventCounter, mPartCounter, mNeedNewEvent, cur, more, nBatches>>
  /\ UNCHANGED <<obsVars, workerVars, chanVars>>

(* ---- InitTask: configuration from the command line, first generator thread *)
InitTask(g, nev, gen, service) ==
  /\ spc = "constructed"
  /\ mState' = "Initializing"
  /\ mStack' = <<>>
  /\ mChunkGranularity' = g
  /\ mMaxEvents' = nev
  /\ mGenerator' = gen
  /\ mAsService' = service
  /\ gpc' = "init"
  /\ spc' = "run"
  /\ UNCHANGED <<mEventCounter, mPartCounter, mNeedNewEvent, mPrimGen,
                 mPrimGeneratorCache, cur, more, nInst, nBatches>>
  /\ UNCHANGED <<obsVars, workerVars, chanVars>>

(* ---- the generator thread ------------------------------------------- *)
\* initGenerator up to its call of generateEvent
initGenerator ==
  /\ Alive
  /\ gpc = "init"
  /\ LET name  == mGenerator
         found == UseCache(name) /\ mPrimGeneratorCache[name] # 0
         inst  == IF found THEN mPrimGeneratorCache[name] ELSE nInst + 1
     IN  /\ mState' = "Initializing"
         /\ mPrimGen' = inst
         /\ mPrimGeneratorCache' = [mPrimGeneratorCache EXCEPT ![name] = inst]
         /\ nInst' = IF found THEN nInst ELSE nInst + 1
         /\ genLog' = [n |-> genLog.n + 1, name |-> name, inst |-> inst,
                       constructed |-> ~found,
                       prevName |-> genLog.name, prevInst |-> genLog.inst,
                       known |-> name \in initNames]
         /\ initNames' = initNames \cup {name}
  /\ gpc' = "genstart"
  /\ UNCHANGED <<mEventCounter, mPartCounter, mNeedNewEvent, mMaxEvents,
                 mChunkGranularity, mAsService, mGenerator, mStack, spc, cur,
                 more, nBatches>>
  /\ UNCHANGED <<reply, served, evPrims, nFull, ctl, sentinel>>
  /\ UNCHANGED <<workerVars, chanVars>>

\* generateEvent: mState = WaitingEvent; mStack->Reset()
generateEventStart ==
  /\ Alive
  /\ gpc = "genstart"
  /\ mState' = "WaitingEvent"
  /\ mStack' = <<>>
  /\ gpc' = "generate"
  /\ UNCHANGED <<mEventCounter, mPartCounter, mNeedNewEvent, mMaxEvents,
                 mChunkGranularity, mAsService, mGenerator, mPrimGen,
                 mPrimGeneratorCache, spc, cur, more, nInst, nBatches>>
  /\ UNCHANGED <<obsVars, workerVars, chanVars>>

\* variant of generateEventFinish: the state is left at WaitingEvent
generateEventFinishSilent(n) ==
  /\ Alive
  /\ gpc = "generate"
  /\ mStack' = Prims(n)
  /\ gpc' = "done"
  /\ UNCHANGED <<mState, mEventCounter, mPartCounter, mNeedNewEvent, mMaxEvents,
                 mChunkGranularity, mAsService, mGenerator, mPrimGen,
                 mPrimGeneratorCache, spc, cur, more, nInst, nBatches>>
  /\ UNCHANGED <<obsVars, workerVars, chanVars>>

\* generateEvent: mPrimGen->GenerateEvent(mStack); mState = ReadyToServe
generateEventFinish(n) ==
  /\ Alive
  /\ gpc = "generate"
  /\ mStack' = Prims(n)
  /\ mState' = "ReadyToServe"
  /\ gpc' = "done"
  /\ UNCHANGED <<mEventCounter, mPartCounter, mNeedNewEvent, mMaxEvents,
                 mChunkGranularity, mAsService, mGenerator, mPrimGen,
                 mPrimGeneratorCache, spc, cur, more, nInst, nBatches>>
  /\ UNCHANGED <<obsVars, workerVars, chanVars>>

(* ---- the serving loop: ConditionalRun -------------------------------- *)
\* channel.Receive(request) delivered a request with payload p
ReceiveRequest(p) ==
  /\ spc = "run"
  /\ cur' = p
  /\ spc' = "handle"
  /\ UNCHANGED <<mState, mEventCounter, mPartCounter, mNeedNewEvent, mMaxEvents,
                 mChunkGranularity, mAsService, mGenerator, mPrimGen,
                 mPrimGeneratorCache, mStack, gpc, more, nInst, nBatches>>
  /\ UNCHANGED <<obsVars, workerVars, chanVars>>

\* HandleRequest -> HandleConfigRequest: the configuration is sent (the send
\* succeeds or not) and true is returned either way
HandleConfigRequest(sendok) ==
  /\ spc = "handle"
  /\ cur = "configrequest"
  /\ more' = TRUE
  /\ reply' = [NoReply EXCEPT !.req = cur, !.replied = TRUE, !.sent = sendok]
  /\ spc' = "post"
  /\ UNCHANGED <<mState, mEventCounter, mPartCounter, mNeedNewEvent, mMaxEvents,
                 mChunkGranularity, mAsService, mGenerator, mPrimGen,
                 mPrimGeneratorCache, mStack, gpc, cur, nInst, nBatches>>
  /\ UNCHANGED <<served, evPrims, nFull, ctl, genLog, initNames, sentinel>>
  /\ UNCHANGED <<workerVars, chanVars>>

\* HandleRequest, payload neither "configrequest" nor "primrequest":
\* logs "unknown request" and returns true
HandleUnknownRequest ==
  /\ spc = "handle"
  /\ cur \notin {"configrequest", "primrequest"}
  /\ more' = TRUE
  /\ reply' = [NoReply EXCEPT !.req = cur]
  /\ spc' = "post"
  /\ UNCHANGED <<mState, mEventCounter, mPartCounter, mNeedNewEvent, mMaxEvents,
                 mChunkGranularity, mAsService, mGenerator, mPrimGen,
                 mPrimGeneratorCache, mStack, gpc, cur, nInst, nBatches>>
  /\ UNCHANGED <<served, evPrims, nFull, ctl, genLog, initNames, sentinel>>
  /\ UNCHANGED <<workerVars, chanVars>>

\* variant of PartCounterForRequest: the reset for a new event is forgotten
PartCounterKept(nne, pc) == pc

\* HandleRequest: the part counter a request starts from,
\* if (mNeedNewEvent) { ...; mPartCounter = 0; ... }
PartCounterForRequest(nne, pc) == IF nne THEN 0 ELSE pc

\* HandleRequest, payload "primrequest": the chunk-serving path. join() blocks
\* until the generator thread has finished, so the step is taken only then.
HandlePrimRequestStep(sendok) ==
  /\ spc = "handle"
  /\ cur = "primrequest"
  /\ mNeedNewEvent => ThreadFinished
  /\ LET workavailable == WorkAvailable(mEventCounter, mMaxEvents, mNeedNewEvent)
         \* if (mNeedNewEvent) { join; mNeedNewEvent = false; mPartCounter = 0; mEventCounter++ }
         ec1      == IF mNeedNewEvent THEN mEventCounter + 1 ELSE mEventCounter
         pc1      == PartCounterForRequest(mNeedNewEvent, mPartCounter)
         joinable == IF mNeedNewEvent THEN FALSE ELSE Joinable
         prims    == mStack
         numberofparts == NumberOfParts(Len(prims), mChunkGranularity)
         mParticles0 == <<>>
         info     == [eventID   |-> IF workavailable THEN ec1 ELSE -1,
                      maxEvents |-> mMaxEvents,
                      part      |-> pc1 + 1,
                      nparts    |-> numberofparts,
                      index     |-> Len(mParticles0)]
         mParticles == IF workavailable
                         THEN mParticles0 \o Slice(prims, pc1, mChunkGranularity)
                         ELSE mParticles0
         pc2      == IF workavailable THEN pc1 + 1 ELSE pc1
         launch   == workavailable /\ pc2 = numberofparts
         chunk    == [eventID |-> info.eventID, maxEvents |-> info.maxEvents,
                      part |-> info.part, nparts |-> info.nparts,
                      index |-> info.index, prims |-> mParticles]
         base     == IF mNeedNewEvent THEN <<>> ELSE served
     IN  /\ mEventCounter' = ec1
         /\ mPartCounter' = pc2
         /\ mNeedNewEvent' = launch
         \* mGeneratorThread = std::thread(generateEvent): assigning to a joinable
         \* std::thread calls std::terminate
         /\ IF launch /\ joinable
              THEN /\ spc' = "terminated"
                   /\ gpc' = gpc
                   /\ more' = more
              ELSE /\ spc' = "post"
                   /\ gpc' = IF launch THEN "genstart"
                             ELSE IF mNeedNewEvent THEN "none" ELSE gpc
                   \* return workavailable if the send succeeded, else false
                   /\ more' = IF sendok THEN workavailable ELSE FALSE
         /\ reply' = [req |-> cur, replied |-> TRUE, sent |-> sendok,
                      wa |-> workavailable, preEC |-> mEventCounter,
                      preME |-> mMaxEvents, preNNE |-> mNeedNewEvent,
                      preFull |-> nFull, chunk |-> chunk]
         /\ evPrims' = IF mNeedNewEvent THEN prims ELSE evPrims
         /\ served' = IF workavailable
                        THEN Append(base, [part |-> chunk.part, nparts |-> chunk.nparts,
                                           eventID |-> chunk.eventID,
                                           prims |-> chunk.prims, sent |-> sendok])
                        ELSE base
         /\ nFull' = IF launch /\ sendok /\ \A k \in 1..Len(base) : base[k].sent
                       THEN nFull + 1 ELSE nFull
         /\ sentinel' = (sentinel \/ ~workavailable)
  /\ UNCHANGED <<mState, mMaxEvents, mChunkGranularity, mAsService, mGenerator,
                 mPrimGen, mPrimGeneratorCache, mStack, cur, nInst, nBatches>>
  /\ UNCHANGED <<ctl, genLog, initNames>>

\* the chunk-serving path with the channels left to the environment
HandlePrimRequest(sendok) ==
  /\ HandlePrimRequestStep(sendok)
  /\ UNCHANGED <<workerVars, chanVars>>

\* ConditionalRun after HandleRequest returned true: mState = ReadyToServe
KeepServing ==
  /\ spc = "post"
  /\ more
  /\ mState' = "ReadyToServe"
  /\ spc' = "run"
  /\ cur' = "none"
  /\ reply' = NoReply
  /\ UNCHANGED <<mEventCounter, mPartCounter, mNeedNewEvent, mMaxEvents,
                 mChunkGranularity, mAsService, mGenerator, mPrimGen,
                 mPrimGeneratorCache, mStack, gpc, more, nInst, nBatches>>
  /\ UNCHANGED <<served, evPrims, nFull, ctl, genLog, initNames, sentinel>>
  /\ UNCHANGED <<workerVars, chanVars>>

\* ConditionalRun after HandleRequest returned false: mState = Idle
GoIdle ==
  /\ spc = "post"
  /\ ~more
  /\ mState' = "Idle"
  /\ spc' = IF mAsService THEN "control" ELSE "final"
  /\ cur' = "none"
  /\ reply' = NoReply
  /\ UNCHANGED <<mEventCounter, mPartCounter, mNeedNewEvent, mMaxEvents,
                 mChunkGranularity, mAsService, mGenerator, mPrimGen,
                 mPrimGeneratorCache, mStack, gpc, more, nInst, nBatches>>
  /\ UNCHANGED <<served, evPrims, nFull, ctl, genLog, initNames, sentinel>>
  /\ UNCHANGED <<workerVars, chanVars>>

\* ReInit(reconfig), r = [stop, nEvents, generator]
ReInit(r) ==
  IF r.stop
    THEN /\ more' = FALSE
         /\ spc' = "final"
         /\ UNCHANGED <<mEventCounter, mPartCounter, mNeedNewEvent, mMaxEvents,
                        mGenerator, gpc, nBatches>>
    ELSE /\ mMaxEvents' = r.nEvents
         /\ mGenerator' = r.generator
         /\ mEventCounter' = 0
         /\ mPartCounter' = 0
         /\ mNeedNewEvent' = TRUE
         /\ nBatches' = nBatches + 1
         \* mGeneratorThread = std::thread(initGenerator): assigning to a joinable
         \* std::thread calls std::terminate
         /\ IF Joinable
              THEN /\ spc' = "terminated"
                   /\ UNCHANGED <<gpc, more>>
              ELSE /\ gpc' = "init"
                   /\ more' = TRUE
                   /\ spc' = "final"

\* waitForControlInput: one message of the control channel is parsed as a
\* reconfiguration and handed to ReInit
ControlInput(r) ==
  /\ spc = "control"
  /\ r.stop \/ nBatches < MaxBatches
  /\ ReInit(r)
  /\ ctl' = [called |-> TRUE, received |-> TRUE, stop |-> r.stop]
  \* a new batch: the observations of the served events start afresh
  /\ nFull' = IF r.stop THEN nFull ELSE 0
  /\ served' = IF r.stop THEN served ELSE <<>>
  /\ evPrims' = IF r.stop THEN evPrims ELSE <<>>
  /\ sentinel' = IF r.stop THEN sentinel ELSE FALSE
  /\ UNCHANGED <<mState, mChunkGranularity, mAsService, mPrimGen,
                 mPrimGeneratorCache, mStack, cur, nInst>>
  /\ UNCHANGED <<reply, genLog, initNames>>
  /\ UNCHANGED <<workerVars, chanVars>>

\* waitForControlInput: channel.Receive(reply) <= 0, "NOTHING RECEIVED"
ControlNothing ==
  /\ spc = "control"
  /\ more' = FALSE
  /\ spc' = "final"
  /\ ctl' = [called |-> FALSE, received |-> FALSE, stop |-> FALSE]
  /\ UNCHANGED <<mState, mEventCounter, mPartCounter, mNeedNewEvent, mMaxEvents,
                 mChunkGranularity, mAsService, mGenerator, mPrimGen,
                 mPrimGeneratorCache, mStack, gpc, cur, nInst, nBatches>>
  /\ UNCHANGED <<reply, served, evPrims, nFull, genLog, initNames, sentinel>>
  /\ UNCHANGED <<workerVars, chanVars>>

\* ConditionalRun's last statement after going idle:
\* if (!more) mState = Stopped else mState = ReadyToServe; return more
LeaveIdle ==
  /\ spc = "final"
  /\ mState' = IF more THEN "ReadyToServe" ELSE "Stopped"
  /\ spc' = IF more THEN "run" ELSE "stopped"
  /\ ctl' = NoCtl
  /\ UNCHANGED <<mEventCounter, mPartCounter, mNeedNewEvent, mMaxEvents,
                 mChunkGranularity, mAsService, mGenerator, mPrimGen,
                 mPrimGeneratorCache, mStack, gpc, cur, more, nInst, nBatches>>
  /\ UNCHANGED <<reply, served, evPrims, nFull, genLog, initNames, sentinel>>
  /\ UNCHANGED <<workerVars, chanVars>>

Reconfigs == [stop : BOOLEAN, nEvents : 0..MaxEv, generator : Generators]

(* ============================ O2SimDevice ============================= *)

\* what Send / Receive return when nothing was transferred: -2, -1 or 0;
\* a transfer returns the number of bytes, > 0
FailCodes == {-2, -1, 0}
RetCodes == FailCodes \cup {1}

\* the state codes a status reply may carry: the five states and two codes
\* that are none of them
ReplyCodes == -1..5

\* variant of isWorkAvailable: Idle answered like the serving states
isWorkAvailableWhenIdle(sendcode, code, state) ==
  /\ sendcode > 0
  /\ code > 0
  /\ state \in {StateCode("ReadyToServe"), StateCode("Initializing"),
                StateCode("WaitingEvent"), StateCode("Idle")}

\* isWorkAvailable: sendcode and code are what Send and Receive returned,
\* state the integer of the reply (read only when both are > 0)
isWorkAvailable(sendcode, code, state) ==
  IF sendcode > 0
    THEN IF code > 0
           THEN IF state = StateCode("ReadyToServe") THEN TRUE
                ELSE IF state = StateCode("Initializing") THEN TRUE
                ELSE IF state = StateCode("WaitingEvent") THEN TRUE
                ELSE IF state = StateCode("Idle") THEN FALSE
                ELSE FALSE
           ELSE FALSE
    ELSE FALSE

\* variant of IsEndOfWork: the event id is not looked at
IsEndOfWorkEmpty(chunk) == Len(chunk.prims) = 0

\* Kernel: chunk->mParticles.size() == 0 && chunk->mSubEventInfo.eventID == -1
IsEndOfWork(chunk) == Len(chunk.prims) = 0 /\ chunk.eventID = -1

NoProbe == [done |-> FALSE, sendcode |-> 0, code |-> 0, state |-> 0]

\* the outer driver calls Kernel
KernelCall(w) ==
  /\ wpc[w] = "call"
  /\ wpc' = [wpc EXCEPT ![w] = IF useStatus THEN "status_send" ELSE "send"]
  /\ trial' = [trial EXCEPT ![w] = 0]
  /\ nSent' = [nSent EXCEPT ![w] = 0]
  /\ wCodes' = [wCodes EXCEPT ![w] = <<>>]
  /\ wChunk' = [wChunk EXCEPT ![w] = <<>>]
  /\ wProcessed' = [wProcessed EXCEPT ![w] = <<>>]
  /\ wProbe' = [wProbe EXCEPT ![w] = NoProbe]
  /\ UNCHANGED <<wRet, wAvail, useStatus, statusRep, workRep>>
  /\ UNCHANGED <<prodVars, obsVars, chanVars>>

\* isWorkAvailable: statuschannel.Send(request, 2000) returned sendcode
StatusSend(w, sendcode) ==
  /\ wpc[w] = "status_send"
  /\ IF sendcode > 0
       THEN /\ wpc' = [wpc EXCEPT ![w] = "status_wait"]
            /\ UNCHANGED <<wProbe, wAvail, wRet>>
       ELSE /\ wProbe' = [wProbe EXCEPT ![w] = [done |-> TRUE, sendcode |-> sendcode,
                                                code |-> 0, state |-> 0]]
            /\ wAvail' = [wAvail EXCEPT ![w] = isWorkAvailable(sendcode, 0, 0)]
            \* Kernel: if (!isWorkAvailable(...)) return false
            /\ wRet' = [wRet EXCEPT ![w] = IF wAvail'[w] THEN wRet[w] ELSE FALSE]
            /\ wpc' = [wpc EXCEPT ![w] = IF wAvail'[w] THEN "send" ELSE "returned"]
  /\ UNCHANGED <<trial, wChunk, wProcessed, useStatus, statusRep, workRep, nSent>>
  /\ UNCHANGED wCodes
  /\ UNCHANGED <<prodVars, obsVars, chanVars>>

\* isWorkAvailable: statuschannel.Receive(reply, 2000) returned code; with
\* code > 0 the reply holds the integer state
StatusReceive(w, code) ==
  /\ wpc[w] = "status_wait"
  /\ code > 0 => statusRep[w] # <<>>
  /\ LET state == IF code > 0 THEN Head(statusRep[w]) ELSE 0
     IN  /\ wProbe' = [wProbe EXCEPT ![w] = [done |-> TRUE, sendcode |-> 1,
                                             code |-> code, state |-> state]]
         /\ wAvail' = [wAvail EXCEPT ![w] = isWorkAvailable(1, code, state)]
  /\ statusRep' = [statusRep EXCEPT ![w] = IF code > 0 THEN <<>> ELSE @]
  /\ wRet' = [wRet EXCEPT ![w] = IF wAvail'[w] THEN wRet[w] ELSE FALSE]
  /\ wpc' = [wpc EXCEPT ![w] = IF wAvail'[w] THEN "send" ELSE "returned"]
  /\ UNCHANGED <<trial, wChunk, wProcessed, useStatus, workRep, nSent>>
  /\ UNCHANGED wCodes
  /\ UNCHANGED <<prodVars, obsVars, chanVars>>

\* Kernel: requestchannel.Send(request, 100000) returned sendcode
RequestSendStep(w, sendcode) ==
  /\ wpc[w] = "send"
  /\ IF sendcode > 0
       THEN /\ wpc' = [wpc EXCEPT ![w] = "recv"]
            /\ nSent' = [nSent EXCEPT ![w] = @ + 1]
            /\ trial' = [trial EXCEPT ![w] = 0]
            /\ UNCHANGED wRet
       ELSE /\ wpc' = [wpc EXCEPT ![w] = "returned"]
            /\ wRet' = [wRet EXCEPT ![w] = FALSE]
            /\ UNCHANGED <<nSent, trial>>
  /\ UNCHANGED <<wChunk, wProcessed, wProbe, wAvail, useStatus, statusRep, workRep>>
  /\ UNCHANGED wCodes
  /\ UNCHANGED <<prodVars, obsVars>>

\* the request handed to a channel whose other end is the environment
RequestSend(w, sendcode) ==
  /\ RequestSendStep(w, sendcode)
  /\ UNCHANGED chanVars

\* Kernel, one pass of the do-while loop in which Receive returned code > 0:
\* the chunk is decoded; the end-of-work chunk makes Kernel return false, any
\* other is handed to the transport (setPrimaries, ProcessEvent / ProcessRun)
ReceiveChunk(w) ==
  /\ wpc[w] = "recv"
  /\ workRep[w] # <<>>
  /\ LET chunk == Head(workRep[w])
     IN  /\ wChunk' = [wChunk EXCEPT ![w] = <<chunk>>]
         /\ IF IsEndOfWork(chunk)
              THEN /\ wRet' = [wRet EXCEPT ![w] = FALSE]
                   /\ UNCHANGED wProcessed
              ELSE /\ wRet' = [wRet EXCEPT ![w] = TRUE]
                   /\ wProcessed' = [wProcessed EXCEPT ![w] = <<chunk>>]
  /\ workRep' = [workRep EXCEPT ![w] = Tail(@)]
  /\ trial' = [trial EXCEPT ![w] = @ + 1]
  /\ wpc' = [wpc EXCEPT ![w] = "returned"]
  /\ UNCHANGED <<wProbe, wAvail, useStatus, statusRep, nSent>>
  \* code > 0: the number of bytes received, 1 in the model
  /\ wCodes' = [wCodes EXCEPT ![w] = Append(@, 1)]
  /\ UNCHANGED <<prodVars, obsVars, chanVars>>

\* variant of ReceiveNothing: the loop bound is one too large
ReceiveNothingOneMore(w, code) ==
  /\ wpc[w] = "recv"
  /\ LET t == trial[w] + 1
     IN  /\ trial' = [trial EXCEPT ![w] = t]
         /\ IF code = -1 /\ t <= MaxTrial + 1
              THEN UNCHANGED <<wpc, wRet>>
              ELSE /\ wpc' = [wpc EXCEPT ![w] = "returned"]
                   /\ wRet' = [wRet EXCEPT ![w] = TRUE]
  /\ UNCHANGED <<wChunk, wProcessed, wProbe, wAvail, useStatus, statusRep,
                 workRep, nSent>>
  /\ wCodes' = [wCodes EXCEPT ![w] = Append(@, code)]
  /\ UNCHANGED <<prodVars, obsVars, chanVars>>

\* Kernel, one pass of the do-while loop in which Receive returned code <= 0:
\* while (code == -1 && trial <= 2) repeats the receive, otherwise the loop is
\* left and Kernel returns true
ReceiveNothing(w, code) ==
  /\ wpc[w] = "recv"
  /\ LET t == trial[w] + 1
     IN  /\ trial' = [trial EXCEPT ![w] = t]
         /\ IF code = -1 /\ t <= MaxTrial
              THEN UNCHANGED <<wpc, wRet>>
              ELSE /\ wpc' = [wpc EXCEPT ![w] = "returned"]
                   /\ wRet' = [wRet EXCEPT ![w] = TRUE]
  /\ UNCHANGED <<wChunk, wProcessed, wProbe, wAvail, useStatus, statusRep,
                 workRep, nSent>>
  /\ wCodes' = [wCodes EXCEPT ![w] = Append(@, code)]
  /\ UNCHANGED <<prodVars, obsVars, chanVars>>

\* the outer driver: calls Kernel again while it returned true
Driver(w) ==
  /\ wpc[w] = "returned"
  /\ wpc' = [wpc EXCEPT ![w] = IF wRet[w] THEN "call" ELSE "teardown"]
  /\ UNCHANGED <<trial, wRet, wChunk, wProcessed, wProbe, wAvail, useStatus,
                 statusRep, workRep, nSent>>
  /\ UNCHANGED wCodes
  /\ UNCHANGED <<prodVars, obsVars, chanVars>>

(* ---- the worker's peer: any reply the channels can deliver ----------- *)
PeerChunks == [eventID : {-1, 1}, maxEvents : {1}, part : {1}, nparts : {1},
               index : {0}, prims : {<<>>, <<1>>}]

PeerStatusReply(w, state) ==
  /\ wpc[w] = "status_wait"
  /\ statusRep[w] = <<>>
  /\ statusRep' = [statusRep EXCEPT ![w] = <<state>>]
  /\ UNCHANGED <<wpc, trial, wRet, wChunk, wProcessed, wProbe, wAvail, useStatus,
                 workRep, nSent>>
  /\ UNCHANGED wCodes
  /\ UNCHANGED <<prodVars, obsVars, chanVars>>

PeerWorkReply(w, chunk) ==
  /\ wpc[w] = "recv"
  /\ workRep[w] = <<>>
  /\ workRep' = [workRep EXCEPT ![w] = <<chunk>>]
  /\ UNCHANGED <<wpc, trial, wRet, wChunk, wProcessed, wProbe, wAvail, useStatus,
                 statusRep, nSent>>
  /\ UNCHANGED wCodes
  /\ UNCHANGED <<prodVars, obsVars, chanVars>>

(* ---- initial states --------------------------------------------------- *)
WorkerStart ==
  /\ wpc = [w \in Workers |-> "call"]
  /\ trial = [w \in Workers |-> 0]
  /\ wRet = [w \in Workers |-> TRUE]
  /\ wChunk = [w \in Workers |-> <<>>]
  /\ wProcessed = [w \in Workers |-> <<>>]
  /\ wProbe = [w \in Workers |-> NoProbe]
  /\ wAvail = [w \in Workers |-> TRUE]
  /\ statusRep = [w \in Workers |-> <<>>]
  /\ workRep = [w \in Workers |-> <<>>]
  /\ nSent = [w \in Workers |-> 0]
  /\ wCodes = [w \in Workers |-> <<>>]
  /\ reqQ = <<>>

WorkerIdle == WorkerStart /\ useStatus = FALSE

ProducerConstructed ==
  /\ mState = "Initializing"
  /\ mEventCounter = 0
  /\ mPartCounter = 0
  /\ mNeedNewEvent = TRUE
  /\ mMaxEvents = DefaultMaxEvents
  /\ mChunkGranularity = DefaultChunkGranularity
  /\ mAsService = FALSE
  /\ mGenerator = "none"
  /\ mPrimGen = 0
  /\ mPrimGeneratorCache = [n \in Generators |-> 0]
  /\ mStack = <<>>
  /\ spc = "constructed"
  /\ gpc = "none"
  /\ cur = "none"
  /\ more = TRUE
  /\ nInst = 0
  /\ nBatches = 0
  /\ reply = NoReply
  /\ served = <<>>
  /\ evPrims = <<>>
  /\ nFull = 0
  /\ ctl = NoCtl
  /\ genLog = NoGenLog
  /\ initNames = {}
  /\ sentinel = FALSE

(* ---- the producer's specification ------------------------------------ *)
Init == ProducerConstructed /\ WorkerIdle

Next ==
  \/ \E g \in 1..MaxG, nev \in 0..MaxEv, gen \in Generators, service \in BOOLEAN :
       InitTask(g, nev, gen, service)
  \/ initGenerator
  \/ generateEventStart
  \/ \E n \in 0..MaxPrims : generateEventFinish(n)
  \/ \E p \in Payloads : ReceiveRequest(p)
  \/ \E sendok \in BOOLEAN : HandleConfigRequest(sendok)
  \/ HandleUnknownRequest
  \/ \E sendok \in BOOLEAN : HandlePrimRequest(sendok)
  \/ KeepServing
  \/ GoIdle
  \/ \E r \in Reconfigs : ControlInput(r)
  \/ ControlNothing
  \/ LeaveIdle

Spec == Init /\ [][Next]_vars

(* ---- the worker's specification --------------------------------------- *)
InitWorker == ProducerConstructed /\ WorkerStart /\ useStatus \in BOOLEAN

NextWorker ==
  \/ \E w \in Workers : KernelCall(w)
  \/ \E w \in Workers, sendcode \in RetCodes : StatusSend(w, sendcode)
  \/ \E w \in Workers, code \in RetCodes : StatusReceive(w, code)
  \/ \E w \in Workers, sendcode \in RetCodes : RequestSend(w, sendcode)
  \/ \E w \in Workers : ReceiveChunk(w)
  \/ \E w \in Workers, code \in FailCodes : ReceiveNothing(w, code)
  \/ \E w \in Workers : Driver(w)
  \/ \E w \in Workers, state \in ReplyCodes : PeerStatusReply(w, state)
  \/ \E w \in Workers, chunk \in PeerChunks : PeerWorkReply(w, chunk)

SpecWorker == InitWorker /\ [][NextWorker]_vars

(* ---- producer and workers joined by the "primary-get" channel -------- *)
\* ConditionalRun: channel.Receive(request) takes the oldest waiting request
SysReceiveRequest ==
  /\ reqQ # <<>>
  /\ ReceiveRequest("primrequest")

\* HandleRequest for the request taken last: a reply whose Send succeeded is
\* on its way to the worker that asked
SysHandlePrimRequest(sendok) ==
  /\ HandlePrimRequestStep(sendok)
  /\ reqQ' = Tail(reqQ)
  /\ workRep' = [workRep EXCEPT
                   ![Head(reqQ)] = IF sendok /\ spc' = "post"
                                     THEN Append(@, reply'.chunk) ELSE @]
  /\ UNCHANGED <<wpc, trial, wRet, wChunk, wProcessed, wProbe, wAvail, useStatus,
                 statusRep, nSent, wCodes>>

\* Kernel: a request whose Send succeeded waits at the producer; one sent after
\* ConditionalRun has returned false, or beyond MaxQueue, is never received
SysRequestSend(w, sendcode) ==
  /\ RequestSendStep(w, sendcode)
  /\ reqQ' = IF sendcode > 0 /\ spc # "stopped" /\ Len(reqQ) < MaxQueue
               THEN Append(reqQ, w) ELSE reqQ

\* Kernel: Receive returns code <= 0 only when no reply has arrived
SysReceiveNothing(w, code) ==
  /\ workRep[w] = <<>>
  /\ ReceiveNothing(w, code)

\* the main thread of a producer that is not run as a service
MainThread ==
  \/ \E g \in 1..MaxG, nev \in 0..MaxEv : InitTask(g, nev, "pythia8", FALSE)
  \/ SysReceiveRequest
  \/ \E sendok \in BOOLEAN : SysHandlePrimRequest(sendok)
  \/ KeepServing
  \/ GoIdle
  \/ LeaveIdle

GeneratorThread ==
  \/ initGenerator
  \/ generateEventStart
  \/ \E n \in 0..MaxPrims : generateEventFinish(n)

\* worker w: the driver calling Kernel (without status channel, as
\* O2SimDevice::ConditionalRun does) until it returns false
WorkerProcess(w) ==
  \/ KernelCall(w)
  \/ \E sendcode \in RetCodes : SysRequestSend(w, sendcode)
  \/ ReceiveChunk(w)
  \/ \E code \in FailCodes : SysReceiveNothing(w, code)
  \/ Driver(w)

NextSystem ==
  \/ \E g \in 1..MaxG, nev \in 0..MaxEv : InitTask(g, nev, "pythia8", FALSE)
  \/ SysReceiveRequest
  \/ \E sendok \in BOOLEAN : SysHandlePrimRequest(sendok)
  \/ KeepServing
  \/ GoIdle
  \/ LeaveIdle
  \/ initGenerator
  \/ generateEventStart
  \/ \E n \in 0..MaxPrims : generateEventFinish(n)
  \/ \E w \in Workers : KernelCall(w)
  \/ \E w \in Workers, sendcode \in RetCodes : SysRequestSend(w, sendcode)
  \/ \E w \in Workers : ReceiveChunk(w)
  \/ \E w \in Workers, code \in FailCodes : SysReceiveNothing(w, code)
  \/ \E w \in Workers : Driver(w)

\* every thread of the producer and every worker process keeps running
FairSystem ==
  /\ WF_vars(MainThread)
  /\ WF_vars(GeneratorThread)
  /\ \A w \in Workers : WF_vars(WorkerProcess(w))

SpecSystem == Init /\ [][NextSystem]_vars /\ FairSystem

(* ============================== properties ============================ *)

\* max(1, ceil(n / g)): the least k >= 1 with k * g >= n
PartsOf(n, g) == CHOOSE k \in 1..(n + 1) : k * g >= n /\ (k = 1 \/ (k - 1) * g < n)

\* every chunk built so far for the current event was sent
AllSent == \A k \in 1..Len(served) : served[k].sent

\* the last part of the current event has been built
EventComplete == served # <<>> /\ mNeedNewEvent

\* how often primary p occurs in the chunks built for the current event
Occurrences(p) ==
  Cardinality({ki \in (1..Len(served)) \X (1..MaxPrims + 1) :
                 /\ ki[2] <= Len(served[ki[1]].prims)
                 /\ served[ki[1]].prims[ki[2]] = p})

Elems(seq) == {seq[i] : i \in 1..Len(seq)}

\* C1: when every send succeeded, the work chunks of one event carry the same
\* event id, parts 1, 2, ..., and nParts = max(1, ceil(n/g)); no primary of the
\* event occurs twice and nothing else occurs; once the last part is built there
\* are max(1, ceil(n/g)) chunks and every primary occurs exactly once.
C1_PartsCoverEvent ==
  AllSent =>
    LET n  == Len(evPrims)
        np == PartsOf(n, mChunkGranularity)
    IN  /\ Len(served) <= np
        /\ \A k \in 1..Len(served) :
             /\ served[k].nparts = np
             /\ served[k].part = k
             /\ served[k].eventID = served[1].eventID
             /\ Elems(served[k].prims) \subseteq Elems(evPrims)
        /\ \A p \in Elems(evPrims) : Occurrences(p) <= 1
        /\ EventComplete =>
             /\ Len(served) = np
             /\ \A p \in Elems(evPrims) : Occurrences(p) = 1

\* an event whose size is no multiple of the granularity was served in full
C1_Witness ==
  /\ EventComplete /\ AllSent
  /\ Len(served) >= 2
  /\ Len(evPrims) % mChunkGranularity # 0

\* C2: a primrequest is answered with the sentinel (eventID -1, no primaries)
\* exactly when eventCounter >= maxEvents and needNewEvent held at its start;
\* otherwise the reply carries the event counter (incremented if a new event was
\* begun) and a contiguous slice of the current event.
C2_SentinelIff ==
  (spc = "post" /\ reply.req = "primrequest") =>
    LET c       == reply.chunk
        nowork  == reply.preEC >= reply.preME /\ reply.preNNE
    IN  /\ (c.eventID = -1 /\ c.prims = <<>>) <=> nowork
        /\ ~nowork =>
             /\ c.eventID = reply.preEC + (IF reply.preNNE THEN 1 ELSE 0)
             /\ c.eventID = mEventCounter
             /\ \E a \in 0..Len(evPrims), b \in 0..Len(evPrims) :
                  c.prims = SubSeq(evPrims, a + 1, b)

\* the sentinel is sent after at least one event was begun
C2_Witness ==
  /\ spc = "post" /\ reply.req = "primrequest"
  /\ reply.chunk.eventID = -1
  /\ reply.preEC >= 1

\* C3 (as claimed): after maxEvents full events the next primrequest is answered
\* with exactly eventID -1, nParts 1 and no primaries.
C3_SentinelExact ==
  (spc = "post" /\ reply.req = "primrequest" /\ reply.preFull = reply.preME) =>
    /\ reply.chunk.eventID = -1
    /\ reply.chunk.nparts = 1
    /\ reply.chunk.prims = <<>>

\* C3 (amended): after maxEvents full events the next primrequest is answered
\* with eventID -1, part 1 and no primaries; its nParts is max(1, ceil(t/g)) for
\* the t primaries of the event generated after the last served part.
C3_SentinelNParts ==
  (spc = "post" /\ reply.req = "primrequest" /\ reply.preFull = reply.preME) =>
    /\ reply.chunk.eventID = -1
    /\ reply.chunk.part = 1
    /\ reply.chunk.prims = <<>>
    /\ reply.chunk.nparts = PartsOf(Len(evPrims), mChunkGranularity)

\* the sentinel after a served batch carries nParts > 1
C3_Witness ==
  /\ spc = "post" /\ reply.req = "primrequest"
  /\ reply.preFull = reply.preME /\ reply.preME >= 1
  /\ reply.chunk.eventID = -1
  /\ reply.chunk.nparts >= 2

\* C4 (as claimed): for an event whose size n is no multiple of g, the first
\* chunk served carries n mod g primaries and every later chunk carries g.
C4_RemainderFirst ==
  (served # <<>> /\ Len(evPrims) % mChunkGranularity # 0) =>
    \A k \in 1..Len(served) :
      Len(served[k].prims) =
        IF k = 1 THEN Len(evPrims) % mChunkGranularity ELSE mChunkGranularity

\* C4 (amended): for an event whose size n is no multiple of g, chunk k is the
\* slice of the event that ends k - 1 granules before its tail: every chunk but
\* the last carries g primaries and the last one carries n mod g.
C4_RemainderLast ==
  (served # <<>> /\ Len(evPrims) % mChunkGranularity # 0) =>
    LET n  == Len(evPrims)
        g  == mChunkGranularity
        np == PartsOf(n, g)
    IN  \A k \in 1..Len(served) :
          /\ served[k].nparts = np
          /\ Len(served[k].prims) = IF k < np THEN g ELSE n % g
          /\ served[k].prims = SubSeq(evPrims, Max(0, n - k * g) + 1, n - (k - 1) * g)

\* an event of several chunks, the short one served last
C4_Witness ==
  /\ EventComplete
  /\ Len(served) >= 2
  /\ Len(evPrims) % mChunkGranularity # 0
  /\ Len(served[1].prims) = mChunkGranularity
  /\ Len(served[Len(served)].prims) = Len(evPrims) % mChunkGranularity

\* C5 (as claimed): a request that is neither "configrequest" nor "primrequest"
\* has been answered with a reply when its handling is over.
C5_UnknownReplied ==
  (spc = "post" /\ reply.req \notin {"configrequest", "primrequest"}) => reply.replied

\* C6 (as claimed): reconfigure with stop = true returns false; with stop =
\* false it returns true and leaves eventCounter = 0, partCounter = 0 and
\* needNewEvent = true.
C6_ReInitResult ==
  ctl.called =>
    IF ctl.stop
      THEN spc = "final" /\ ~more
      ELSE /\ spc = "final" /\ more
           /\ mEventCounter = 0 /\ mPartCounter = 0 /\ mNeedNewEvent

C8_ExtKinFresh ==
  (genLog.n >= 1 /\ genLog.name \in ExtKin) => genLog.constructed

\* C9: isWorkAvailable returns true exactly when the probe was sent, a reply
\* was received and its state is Initializing, WaitingEvent or ReadyToServe.
C9_PollStatus ==
  \A w \in Workers :
    wProbe[w].done =>
      (wAvail[w] <=>
         /\ wProbe[w].sendcode > 0
         /\ wProbe[w].code > 0
         /\ wProbe[w].state \in {StateCode("Initializing"), StateCode("WaitingEvent"),
                                 StateCode("ReadyToServe")})

\* a reply that says Idle made Kernel return false
C9_Witness ==
  \E w \in Workers :
    /\ wProbe[w].done /\ wProbe[w].code > 0
    /\ wProbe[w].state = StateCode("Idle")
    /\ wpc[w] = "returned" /\ ~wRet[w]

\* C10: a received chunk ends the work (Kernel returns false, nothing is handed
\* to the transport) exactly when it has no primaries and eventID -1; any other
\* chunk, an empty event included, is handed to the transport and Kernel
\* returns true.
C10_EndOfWorkIff ==
  \A w \in Workers :
    (wpc[w] = "returned" /\ wChunk[w] # <<>>) =>
      LET c == wChunk[w][1]
      IN  IF Len(c.prims) = 0 /\ c.eventID = -1
            THEN ~wRet[w] /\ wProcessed[w] = <<>>
            ELSE wRet[w] /\ wProcessed[w] = <<c>>

\* an empty event was handed to the transport
C10_Witness ==
  \E w \in Workers :
    /\ wpc[w] = "returned" /\ wChunk[w] # <<>>
    /\ Len(wChunk[w][1].prims) = 0 /\ wChunk[w][1].eventID = 1
    /\ wRet[w] /\ wProcessed[w] = wChunk[w]

\* C11: Stopped is terminal: once mState is Stopped, no step of the serving
\* loop, of the generator thread or of a reconfiguration gives it another value.
C11_StoppedTerminal == [][mState = "Stopped" => mState' = "Stopped"]_vars

\* C12: whenever mState is ReadyToServe, no initGenerator / generateEvent call
\* of the generator thread is in flight.
C12_ReadyMeansGenerated == mState = "ReadyToServe" => ~InFlight

\* C13: whenever mState is WaitingEvent, a generateEvent call of the generator
\* thread has started and has not yet completed.
C13_WaitingMeansGenerating == mState = "WaitingEvent" => gpc = "generate"

\* the generator thread is inside generateEvent and the state says so, while
\* the serving loop is between two requests
C13_Witness == mState = "WaitingEvent" /\ gpc = "generate" /\ spc = "run"

\* a step of the main thread (every step of InitTask / ConditionalRun moves spc)
\* that belongs to the handling of a "configrequest"
ConfigRequestStep ==
  spc' # spc /\ (cur = "configrequest" \/ cur' = "configrequest")

\* C14: handling a "configrequest" is side-effect free: no step the serving
\* loop takes for it, from its receipt to the return of ConditionalRun, changes
\* the event counter, the part counter, mNeedNewEvent, mMaxEvents, the current
\* event, the generator cache or mState.
C14_ConfigRequestFrame ==
  [][ConfigRequestStep =>
       UNCHANGED <<mEventCounter, mPartCounter, mNeedNewEvent, mMaxEvents,
                   mStack, mPrimGeneratorCache, mState>>]_vars

\* the step in which HandleRequest serves a "primrequest": it reads the
\* primaries of mStack to compute numberofparts and to copy the slice
PrimRequestStep == spc = "handle" /\ cur = "primrequest" /\ spc' # spc

\* C15: the serving path reads the current event only when no initGenerator /
\* generateEvent call is in flight: a primrequest that needs a new event is
\* served after the generator thread has completed, and a primrequest that
\* needs none finds no generator thread to wait for.
C15_NoReadInFlight ==
  [][PrimRequestStep => /\ ~InFlight
                        /\ ~mNeedNewEvent => ~Joinable]_vars

\* the second part of an event has been served: the first one was served after
\* the join, this one without any generator thread
C15_Witness ==
  /\ spc = "post"
  /\ reply.req = "primrequest"
  /\ ~reply.preNNE
  /\ reply.chunk.part = 2
  /\ reply.chunk.prims # <<>>
  /\ gpc = "none"

\* C16: the work chunks built for one event carry the part numbers 1, 2, ...
\* in the order they are built, each once and none skipped, up to nparts, which
\* is the same in all of them; the event is complete exactly with part nparts,
\* and the first chunk of the next event carries part 1 again.
C16_PartsInOrder ==
  /\ \A k \in 1..Len(served) :
        /\ served[k].part = k
        /\ served[k].nparts = served[1].nparts
        /\ served[k].eventID = served[1].eventID
        /\ k <= served[k].nparts
  /\ served # <<>> => (mNeedNewEvent <=> Len(served) = served[1].nparts)
  /\ served # <<>> => served[1].eventID = mEventCounter

\* the second event of a batch has been served in two parts
C16_Witness ==
  /\ Len(served) = 2
  /\ served[1].eventID = 2
  /\ served[2].part = 2
  /\ mNeedNewEvent

\* C17: the primrequest path returns workavailable to ConditionalRun: after a
\* primrequest the serving loop goes on (HandleRequest returned true) exactly
\* when work was available for it, whether the reply was sent or not.
C17_ReturnsWorkAvailable ==
  (spc = "post" /\ reply.req = "primrequest") => (more <=> reply.wa)

\* a work chunk of the current event has been built and the event is not
\* complete: parts of it are still to be served
PartiallyServed == ~mNeedNewEvent /\ mPartCounter >= 1

\* the step in which waitForControlInput hands a reconfiguration to ReInit
ReInitStep == spc = "control" /\ ctl'.called

\* C19: ReInit, with stop set or not, starts only while mState is Idle, no
\* request is being handled and no event is partially served.
C19_ReInitOnlyIdle ==
  [][ReInitStep => /\ mState = "Idle"
                   /\ cur = "none"
                   /\ ~PartiallyServed]_vars

\* a step of the generator thread: the main thread does not move
GeneratorThreadStep == spc' = spc

\* C20 as stated: the generator cache and the run configuration
\* (mSimConfig's generator name) are written only by the main thread, never by
\* a step of initGenerator / generateEvent on the generator thread.
C20_MainThreadWrites ==
  [][(mPrimGeneratorCache' # mPrimGeneratorCache \/ mGenerator' # mGenerator)
       => ~GeneratorThreadStep]_vars

\* C20 amended: the generator cache is written only by initGenerator on the
\* generator thread, and the run configuration only by the main thread and
\* never while an initGenerator call is in flight.
C20_OneWriterEach ==
  [][/\ mPrimGeneratorCache' # mPrimGeneratorCache
          => (GeneratorThreadStep /\ gpc = "init")
     /\ mGenerator' # mGenerator
          => (~GeneratorThreadStep /\ gpc # "init")]_vars

\* after a reconfiguration that changed the generator name, initGenerator has
\* constructed a generator on the generator thread and entered it in the cache
C20_Witness ==
  /\ gpc = "genstart"
  /\ genLog.n = 2
  /\ genLog.constructed
  /\ genLog.name # genLog.prevName
  /\ mPrimGeneratorCache[mGenerator] = mPrimGen

\* C18: in one Kernel call the request is sent at most once and Receive is
\* called at most 3 times; Receive is called again only after an attempt that
\* returned -1 (the code the loop takes for "no answer within the timeout");
\* a received chunk or any other code ends the attempts, and the attempts are
\* made only after the request was sent, once.
C18_ReceiveAttempts ==
  \A w \in Workers :
    /\ nSent[w] <= 1
    /\ Len(wCodes[w]) = trial[w]
    /\ Len(wCodes[w]) <= 3
    /\ \A i \in 1..Len(wCodes[w]) :
          (i < Len(wCodes[w]) \/ wpc[w] = "recv") => wCodes[w][i] = -1
    /\ wpc[w] = "recv" => Len(wCodes[w]) < 3
    /\ (wpc[w] = "recv" \/ wCodes[w] # <<>>) => nSent[w] = 1

\* a Kernel call has sent one request and given up after three attempts
C18_Witness ==
  \E w \in Workers :
    /\ wpc[w] = "returned"
    /\ wCodes[w] = <<-1, -1, -1>>
    /\ nSent[w] = 1

\* C21: in every reply to a "primrequest" the index field of the SubEventInfo
\* is the number of primaries of the current event when the reply is built.
C21_IndexIsTotal ==
  (spc = "post" /\ reply.req = "primrequest")
    => reply.chunk.index = Len(evPrims)

\* C22: the generator thread handle is never assigned while it refers to an
\* unjoined thread: every launch (generateEvent after the last part of an
\* event, initGenerator from ReInit) finds the previous thread joined, so
\* std::terminate is never called.
C22_OneGeneratorThread == Alive

\* C23: within one batch no work chunk carries an event id above mMaxEvents,
\* and once the end-of-work reply has been built no work chunk is built until
\* the next ReInit.
C23_NoWorkBeyondMax ==
  /\ \A k \in 1..Len(served) :
        served[k].eventID >= 1 /\ served[k].eventID <= mMaxEvents
  /\ (spc = "post" /\ reply.req = "primrequest" /\ reply.wa)
        => reply.chunk.eventID <= reply.chunk.maxEvents
  /\ sentinel => served = <<>>
  /\ sentinel => spc \notin {"run", "handle"}

\* the end-of-work reply has been built after a batch of at least one event:
\* the event counter is past mMaxEvents, mNeedNewEvent is cleared and the
\* event generated after the last served part lies unserved in mStack
C23_Witness ==
  /\ sentinel
  /\ spc = "post"
  /\ reply.chunk.eventID = -1
  /\ mMaxEvents >= 1
  /\ mEventCounter = mMaxEvents + 1
  /\ ~mNeedNewEvent
  /\ mStack # <<>>

\* C25: Kernel returns true only when, in that call, a chunk other than the
\* end-of-work chunk was received and handed to the transport; when no chunk
\* was received it returns false.
C25_TrueOnlyAfterChunk ==
  \A w \in Workers :
    (wpc[w] = "returned" /\ wRet[w])
      => (wProcessed[w] # <<>> /\ ~IsEndOfWork(wProcessed[w][1]))

\* C24: with a producer that is not a service, fair scheduling and channels
\* that deliver or time out, every worker eventually leaves its Kernel loop:
\* each one is eventually told false and torn down.
C24_WorkersTerminate == <>(\A w \in Workers : wpc[w] = "teardown")

=============================================================================
